---- MODULE Spec2Model ----
(***************************************************************************)
(* Model of the SegmentTimeline RepresentationIndex of the DASH parser     *)
(* (src/parsers/manifest/dash/indexes/timeline.ts).                        *)
(*                                                                         *)
(* Three specifications share the module:                                  *)
(*   Spec      the facades (TimelineRepresentationIndex instances), the    *)
(*             ITimelineIndex objects they reference, the bounds           *)
(*             calculators and the clock; one action per public method.    *)
(*   SpecNorm  the constructor of one facade, run one loop iteration at a  *)
(*             time over a raw `S` element list drawn from a bounded set.  *)
(*   SpecQuery one facade constructed from a manifest drawn from a set,    *)
(*             queried while its clock advances by the second and its      *)
(*             bounds calculator's answer moves.                           *)
(*                                                                         *)
(* Numbers.  A JavaScript value that may be undefined, null or NaN is a    *)
(* record [k, v]: k says which, v is the number when k = "num".  Index     *)
(* times are integers.  The clock is in milliseconds.  A number of seconds *)
(* that need not be whole (a result of fromIndexTime, the argument of      *)
(* checkDiscontinuity) is a fraction [k, v, d] standing for v / d.         *)
(***************************************************************************)
EXTENDS Integers, Sequences, FiniteSets, TLC

VARIABLES
  \* ---- the facades (TimelineRepresentationIndex instances) ----
  _index,                     \* facade -> reference (id) of its ITimelineIndex
  _isDynamic,                 \* facade -> BOOLEAN
  _scaledPeriodStart,         \* facade -> index time
  _scaledPeriodEnd,           \* facade -> index time or undefined
  _lastUpdate,                \* facade -> ms
  _manifestBoundsCalculator,  \* facade -> reference of its bounds calculator
  \* ---- the objects they reference ----
  indexes,                    \* id -> ITimelineIndex (timeline, timescale, offset)
  minimumBound,               \* calculator -> seconds or undefined
  now,                        \* performance.now(), ms
  ret,                        \* the last call made and what it returned
  \* ---- the constructor's locals (SpecNorm) ----
  args,                       \* its `index` and `context` arguments
  i,                          \* loop counter (1-based here)
  timeline,                   \* the local `timeline` being filled
  accepted,                   \* positions of the raw entries pushed so far
  pc                          \* "idle" | "loop" | "done"

facadeVars == <<_index, _isDynamic, _scaledPeriodStart, _scaledPeriodEnd,
                _lastUpdate, _manifestBoundsCalculator>>
ctorVars == <<args, i, timeline, accepted, pc>>
vars == <<_index, _isDynamic, _scaledPeriodStart, _scaledPeriodEnd,
          _lastUpdate, _manifestBoundsCalculator, indexes, minimumBound,
          now, ret, args, i, timeline, accepted, pc>>

----------------------------------------------------------------------------
(* Bounds of the model *)

\* longest raw `S` element list the constructor is run on in SpecNorm
MaxRawLen == 2
\* latest clock reading, ms
MaxNow == 5000
\* length of one clock tick, ms
TickMs == 5000

----------------------------------------------------------------------------
(* JavaScript values *)

Undefined == [k |-> "undefined", v |-> 0]
Null == [k |-> "null", v |-> 0]
NaN == [k |-> "nan", v |-> 0]
Num(n) == [k |-> "num", v |-> n]

\* x == null
IsNullish(x) == x.k \in {"undefined", "null"}
\* isNaN(x), used by the code on non-null values only
isNaN(x) == x.k = "nan"

\* Number.MAX_VALUE, the end of an open-ended last entry
MaxValue == 1000000

\* a / b for b > 0, as the fraction in lowest terms
RECURSIVE Gcd(_, _)
Gcd(a, b) == IF b = 0 THEN a ELSE Gcd(b, a % b)
Abs(a) == IF a < 0 THEN 0 - a ELSE a
Div(a, b) ==
  LET g == Gcd(Abs(a), b)
      n == Abs(a) \div g
  IN [k |-> "num", v |-> IF a < 0 THEN 0 - n ELSE n, d |-> b \div g]

----------------------------------------------------------------------------
(* index_helpers *)

\* toIndexTime(time, indexOptions): T * timescale + indexTimeOffset
toIndexTime(time, index) == time * index.timescale + index.indexTimeOffset

\* toIndexTime on a number of seconds that need not be whole: the fraction
\* (time.v / time.d) * timescale + indexTimeOffset
toIndexTimeOfFraction(time, index) ==
  Div(time.v * index.timescale + index.indexTimeOffset * time.d, time.d)

\* fromIndexTime(time, indexOptions): back to seconds
fromIndexTime(time, index) == Div(time - index.indexTimeOffset, index.timescale)

\* getIndexSegmentEnd(segment, nextSegment, maximumTime); nextSegment is
\* <<>> (null) or <<entry>>
getIndexSegmentEnd(segment, nextSegment, maximumTime) ==
  IF segment.duration = -1
  THEN IF nextSegment # <<>> THEN nextSegment[1].start
       ELSE IF ~IsNullish(maximumTime) THEN maximumTime.v
       ELSE MaxValue
  ELSE segment.start + segment.duration * (segment.repeatCount + 1)

\* the end of a resolved entry with a concrete duration
RunEnd(e) == e.start + e.duration * (e.repeatCount + 1)

----------------------------------------------------------------------------
(* The timeline normalizer *)

\* a start one repetition short of the previous run's end
InferredStart_OneShort(previousItem) ==
  previousItem.start + previousItem.duration * previousItem.repeatCount

\* a start placed after the previous run's first segment only
InferredStart_FirstOnly(previousItem) ==
  previousItem.start + previousItem.duration

\* previousItem.start + (previousItem.duration * (previousItem.repeatCount + 1))
InferredStart(previousItem) ==
  previousItem.start + previousItem.duration * (previousItem.repeatCount + 1)

\* a duration that runs from index time 0 to the next declared start
InferredDuration_FromZero(nextItem, start) == nextItem.start.v

\* duration = nextItem.start - start
InferredDuration(nextItem, start) == nextItem.start.v - start.v

\* the acceptance test without its repeatCount part
IsParsed_AnyRepeat(start, duration, repeatCount) ==
  /\ ~IsNullish(start) /\ ~isNaN(start)
  /\ ~IsNullish(duration) /\ ~isNaN(duration)

\* the condition under which the `S` element is returned as a segment
IsParsed(start, duration, repeatCount) ==
  /\ ~IsNullish(start) /\ ~isNaN(start)
  /\ ~IsNullish(duration) /\ ~isNaN(duration)
  /\ (IsNullish(repeatCount) \/ ~isNaN(repeatCount))

\* fromParsedSToIndexSegment(item, previousItem, nextItem, timelineStart).
\* previousItem is <<>> (null) or <<a resolved entry>>, nextItem is <<>>
\* (null) or <<a raw entry>>; the result is <<>> (null) or <<entry>>.
\* A resolved entry's duration is a number, -1 included, so the test
\* `previousItem.duration != null` is made on a number.
fromParsedSToIndexSegment(item, previousItem, nextItem, timelineStart) ==
  LET start ==
        IF IsNullish(item.start)
        THEN IF previousItem = <<>>
             THEN Num(timelineStart)
             ELSE IF ~IsNullish(Num(previousItem[1].duration))
             THEN Num(InferredStart(previousItem[1]))
             ELSE item.start
        ELSE item.start
      duration ==
        IF /\ (IsNullish(item.duration) \/ isNaN(item.duration))
           /\ nextItem # <<>>
           /\ ~IsNullish(nextItem[1].start) /\ ~isNaN(nextItem[1].start)
           /\ ~IsNullish(start) /\ ~isNaN(start)
        THEN Num(InferredDuration(nextItem[1], start))
        ELSE item.duration
      repeatCount == item.repeatCount
  IN IF IsParsed(start, duration, repeatCount)
     THEN << [start |-> start.v,
              duration |-> duration.v,
              repeatCount |-> IF repeatCount = Undefined THEN 0
                              ELSE repeatCount.v] >>
     ELSE <<>>

\* const scaledStart = periodStart * timescale
ScaledStart(index, context) == context.periodStart * index.timescale

\* presentationTimeOffset - scaledStart
IndexTimeOffset(index, context) ==
  (IF ~IsNullish(index.presentationTimeOffset)
   THEN index.presentationTimeOffset.v ELSE 0) - ScaledStart(index, context)

\* One iteration of the constructor's loop, for the raw entry at position j:
\* the element it computes (<<>> when the entry is dropped).  The code calls
\* the last resolved entry `nextItem` and the following raw entry `prevItem`
\* and passes them in the positions of previousItem and nextItem.
TimelineElement(initialTimeline, j, tl, scaledStart) ==
  LET item == initialTimeline[j]
      nextItem == IF tl = <<>> THEN <<>> ELSE << tl[Len(tl)] >>
      prevItem == IF j + 1 > Len(initialTimeline) THEN <<>>
                  ELSE << initialTimeline[j + 1] >>
  IN fromParsedSToIndexSegment(item, nextItem, prevItem, scaledStart)

\* if (timelineElement != null) { timeline.push(timelineElement); }
PushElement(tl, timelineElement) ==
  IF timelineElement # <<>> THEN Append(tl, timelineElement[1]) ELSE tl

\* The whole loop, from position j with `tl` filled so far
RECURSIVE ConstructorLoop(_, _, _, _)
ConstructorLoop(initialTimeline, j, tl, scaledStart) ==
  IF j > Len(initialTimeline) THEN tl
  ELSE ConstructorLoop(initialTimeline, j + 1,
         PushElement(tl, TimelineElement(initialTimeline, j, tl, scaledStart)),
         scaledStart)

\* this._index = { ..., indexTimeOffset, timeline, timescale }
ConstructedIndex(index, context, tl) ==
  [timeline |-> tl,
   timescale |-> index.timescale,
   indexTimeOffset |-> IndexTimeOffset(index, context)]

\* this._lastUpdate = receivedTime == null ? performance.now() : receivedTime
ConstructedLastUpdate(context, clock) ==
  IF IsNullish(context.receivedTime) THEN clock ELSE context.receivedTime.v

\* this._scaledPeriodStart = toIndexTime(periodStart, this._index)
ConstructedPeriodStart(context, idx) == toIndexTime(context.periodStart, idx)

\* this._scaledPeriodEnd = periodEnd == null ? undefined : toIndexTime(...)
ConstructedPeriodEnd(context, idx) ==
  IF IsNullish(context.periodEnd) THEN Undefined
  ELSE Num(toIndexTime(context.periodEnd.v, idx))

----------------------------------------------------------------------------
(* Timeline store: lookup, eviction, materialization *)

\* getSegmentIndex(index, start): the binary search, from its loop's state.
\* `start` is the fraction start.v / start.d, so timeline[mid].start < start
\* is timeline[mid].start * start.d < start.v
RECURSIVE SegmentIndexSearch(_, _, _, _)
SegmentIndexSearch(tl, start, low, high) ==
  IF low < high
  THEN LET mid == (low + high) \div 2
       IN IF tl[mid + 1].start * start.d < start.v
          THEN SegmentIndexSearch(tl, start, mid + 1, high)
          ELSE SegmentIndexSearch(tl, start, low, mid)
  ELSE IF low > 0 THEN low - 1 ELSE low

\* 0-based, as in the code
getSegmentIndex(index, start) ==
  SegmentIndexSearch(index.timeline, start, 0, Len(index.timeline))

\* clearTimelineFromPosition(timeline, firstAvailablePosition): drops the
\* leading entries that have fully expired before the position; an entry
\* that still straddles it stays
RECURSIVE clearTimelineFromPosition(_, _)
clearTimelineFromPosition(tl, firstAvailablePosition) ==
  IF tl = <<>> THEN tl
  ELSE LET next == IF Len(tl) > 1 THEN << tl[2] >> ELSE <<>>
       IN IF getIndexSegmentEnd(tl[1], next, Undefined) <= firstAvailablePosition
          THEN clearTimelineFromPosition(Tail(tl), firstAvailablePosition)
          ELSE tl

\* the segments one timeline entry stands for, as <<time, duration>> records
EntrySegments(tl, k, maximumTime) ==
  LET e == tl[k]
      next == IF k < Len(tl) THEN << tl[k + 1] >> ELSE <<>>
  IN IF e.duration = -1
     THEN << [time |-> e.start,
              duration |-> getIndexSegmentEnd(e, next, maximumTime) - e.start] >>
     ELSE [r \in 1..(e.repeatCount + 1) |->
             [time |-> e.start + (r - 1) * e.duration, duration |-> e.duration]]

RECURSIVE TimelineSegments(_, _, _)
TimelineSegments(tl, k, maximumTime) ==
  IF k > Len(tl) THEN <<>>
  ELSE EntrySegments(tl, k, maximumTime) \o TimelineSegments(tl, k + 1, maximumTime)

\* getSegmentsFromTimeline(index, from, durationWanted, scaledPeriodEnd):
\* every segment intersecting the window, clipped to the period's end
getSegmentsFromTimeline(index, from, durationWanted, scaledPeriodEnd) ==
  LET scaledUp == toIndexTime(from, index)
      wantedTo == toIndexTime(from + durationWanted, index)
      scaledTo == IF ~IsNullish(scaledPeriodEnd) /\ scaledPeriodEnd.v < wantedTo
                  THEN scaledPeriodEnd.v ELSE wantedTo
      InWindow(seg) == seg.time < scaledTo /\ seg.time + seg.duration > scaledUp
  IN SelectSeq(TimelineSegments(index.timeline, 1, scaledPeriodEnd), InWindow)

\* isSegmentStillAvailable(segment, timeline, timescale, indexTimeOffset):
\* an entry of the timeline accounts for the segment's time
isSegmentStillAvailableInTimeline(segment, tl) ==
  \E k \in 1..Len(tl) :
    IF tl[k].duration = -1 THEN tl[k].start = segment.time
    ELSE \E r \in 0..tl[k].repeatCount :
           tl[k].start + r * tl[k].duration = segment.time

\* getInitSegment(index)
getInitSegmentOf(index) == [isInit |-> TRUE, time |-> 0, timescale |-> index.timescale]

----------------------------------------------------------------------------
(* The facade's methods, as values computed on an ITimelineIndex *)

\* this._index of facade f
Index(f) == indexes[_index[f]]

\* manifestBoundsCalculator.getMinimumBound() of facade f
getMinimumBound(f) == minimumBound[_manifestBoundsCalculator[f]]

\* the eviction cutoff relative to the first entry's start
RefreshedTimeline_Relative(f) ==
  LET firstPosition == getMinimumBound(f)
      tl == Index(f).timeline
  IN IF IsNullish(firstPosition) \/ tl = <<>> THEN tl
     ELSE clearTimelineFromPosition(tl,
            tl[1].start + toIndexTime(firstPosition.v, Index(f)))

\* an unknown bound converted like the number 0
RefreshedTimeline_NullAsZero(f) ==
  LET firstPosition == getMinimumBound(f)
  IN clearTimelineFromPosition(Index(f).timeline,
       toIndexTime(firstPosition.v, Index(f)))

\* _refreshTimeline(): the timeline it leaves in this._index
RefreshedTimeline(f) ==
  LET firstPosition == getMinimumBound(f)
  IN IF IsNullish(firstPosition) THEN Index(f).timeline
     ELSE clearTimelineFromPosition(Index(f).timeline,
            toIndexTime(firstPosition.v, Index(f)))

\* this._index once _refreshTimeline() has run
Refreshed(f) == [Index(f) EXCEPT !.timeline = RefreshedTimeline(f)]

\* the ITimelineIndex objects once facade f has run _refreshTimeline()
AfterRefresh(f) == [indexes EXCEPT ![_index[f]] = Refreshed(f)]

MsPerSecond == 1000

\* an extrapolation counted from the last entry's start instead of its end
getTheoriticalLastPosition_FromStart(f, idx) ==
  IF Len(idx.timeline) <= 0 THEN Undefined
  ELSE LET lastTimelineElement == idx.timeline[Len(idx.timeline)]
           lastSegmentDuration == lastTimelineElement.duration
           timeDiffNum == (now - _lastUpdate[f]) * idx.timescale
       IN IF lastSegmentDuration <= 0 THEN NaN
          ELSE Num((timeDiffNum \div (lastSegmentDuration * MsPerSecond))
                     * lastSegmentDuration + lastTimelineElement.start)

\* _getTheoriticalLastPosition() on index idx; a JavaScript number.
\* timeDiffTS = (now - _lastUpdate) / 1000 * timescale is kept as the
\* numerator elapsed * timescale over MsPerSecond.
getTheoriticalLastPosition(f, idx) ==
  IF Len(idx.timeline) <= 0 THEN Undefined
  ELSE LET lastTimelineElement == idx.timeline[Len(idx.timeline)]
           lastPosition == getIndexSegmentEnd(lastTimelineElement, <<>>,
                                              _scaledPeriodEnd[f])
           lastSegmentDuration == lastTimelineElement.duration
           timeDiffNum == (now - _lastUpdate[f]) * idx.timescale
       IN IF ~_isDynamic[f] THEN Num(lastPosition)
          ELSE IF timeDiffNum < lastSegmentDuration * MsPerSecond
          THEN Num(lastPosition)
          ELSE IF lastSegmentDuration > 0
          THEN Num((timeDiffNum \div (lastSegmentDuration * MsPerSecond))
                     * lastSegmentDuration + lastPosition)
          ELSE IF lastSegmentDuration < 0
          \* floor(x / d) * d for d < 0 and x >= 0
          THEN Num((0 - ((timeDiffNum + (0 - lastSegmentDuration) * MsPerSecond - 1)
                          \div ((0 - lastSegmentDuration) * MsPerSecond)))
                     * lastSegmentDuration + lastPosition)
          \* x / 0 is Infinity or NaN, and times 0 it is NaN
          ELSE NaN

\* shouldRefresh without its test of _isDynamic
shouldRefreshValue_NoStaticTest(f, idx, to) ==
  IF Len(idx.timeline) = 0 THEN TRUE
  ELSE LET lastTimelineElt == idx.timeline[Len(idx.timeline)]
           lastTime == getIndexSegmentEnd(lastTimelineElt, <<>>, _scaledPeriodEnd[f])
           lastTheoriticalPosition == getTheoriticalLastPosition(f, idx)
       IN IF to * idx.timescale < lastTime THEN FALSE
          ELSE IF IsNullish(lastTheoriticalPosition) THEN TRUE
          ELSE IF isNaN(lastTheoriticalPosition) THEN FALSE
          ELSE lastTheoriticalPosition.v > lastTime

\* a shouldRefresh that answers false on an empty timeline
shouldRefreshValue_FalseWhenEmpty(f, idx, to) ==
  IF Len(idx.timeline) = 0 THEN FALSE ELSE shouldRefreshValue_NoStaticTest(f, idx, to)

\* shouldRefresh(_up, to), after its _refreshTimeline()
shouldRefreshValue(f, idx, to) ==
  IF ~_isDynamic[f] THEN FALSE
  ELSE IF Len(idx.timeline) = 0 THEN TRUE
  ELSE LET lastTimelineElt == idx.timeline[Len(idx.timeline)]
           lastTime == getIndexSegmentEnd(lastTimelineElt, <<>>, _scaledPeriodEnd[f])
           lastTheoriticalPosition == getTheoriticalLastPosition(f, idx)
       IN IF to * idx.timescale < lastTime THEN FALSE
          ELSE IF IsNullish(lastTheoriticalPosition) THEN TRUE
          ELSE IF isNaN(lastTheoriticalPosition) THEN FALSE
          ELSE lastTheoriticalPosition.v > lastTime

\* getFirstPosition answering in index time, without the conversion
getFirstPositionValue_Unconverted(idx) ==
  IF Len(idx.timeline) = 0 THEN Null
  ELSE Div(idx.timeline[1].start, 1)

\* getFirstPosition(), after its _refreshTimeline()
getFirstPositionValue(idx) ==
  IF Len(idx.timeline) = 0 THEN Null
  ELSE fromIndexTime(idx.timeline[1].start, idx)

\* getLastPosition answering second 0 on an empty timeline
getLastPositionValue_ZeroWhenEmpty(f, idx) ==
  IF Len(idx.timeline) = 0 THEN fromIndexTime(0, idx)
  ELSE fromIndexTime(getIndexSegmentEnd(idx.timeline[Len(idx.timeline)], <<>>,
                                        _scaledPeriodEnd[f]), idx)

\* getLastPosition(), after its _refreshTimeline()
getLastPositionValue(f, idx) ==
  IF Len(idx.timeline) = 0 THEN Null
  ELSE fromIndexTime(getIndexSegmentEnd(idx.timeline[Len(idx.timeline)], <<>>,
                                        _scaledPeriodEnd[f]), idx)

\* isSegmentStillAvailable(segment), after its _refreshTimeline()
isSegmentStillAvailableValue(idx, segment) ==
  IF segment.isInit THEN TRUE
  ELSE isSegmentStillAvailableInTimeline(segment, idx.timeline)

\* a checkDiscontinuity that answers only for times before the entry's end
checkDiscontinuityValue_InsideEntryOnly(f, idx, time) ==
  LET tl == idx.timeline
      scaledTime == toIndexTimeOfFraction(time, idx)
      segmentIndex == getSegmentIndex(idx, scaledTime)
      timelineItem == tl[segmentIndex + 1]
      nextTimelineItem == tl[segmentIndex + 2]
      rangeUp == timelineItem.start
      rangeTo == getIndexSegmentEnd(timelineItem, << nextTimelineItem >>,
                                    _scaledPeriodEnd[f])
  IN IF scaledTime.v <= 0 THEN Num(-1)
     ELSE IF segmentIndex < 0 \/ segmentIndex >= Len(tl) - 1 THEN Num(-1)
     ELSE IF timelineItem.duration = -1 THEN Num(-1)
     ELSE IF /\ rangeTo < nextTimelineItem.start
             /\ scaledTime.v >= rangeUp * scaledTime.d
             /\ scaledTime.v < rangeTo * scaledTime.d
             /\ rangeTo * scaledTime.d - scaledTime.v < idx.timescale * scaledTime.d
     THEN fromIndexTime(nextTimelineItem.start, idx)
     ELSE Num(-1)

\* a checkDiscontinuity without the one-timescale tolerance
checkDiscontinuityValue_NoTolerance(f, idx, time) ==
  LET tl == idx.timeline
      scaledTime == toIndexTimeOfFraction(time, idx)
      segmentIndex == getSegmentIndex(idx, scaledTime)
      timelineItem == tl[segmentIndex + 1]
      nextTimelineItem == tl[segmentIndex + 2]
      rangeUp == timelineItem.start
      rangeTo == getIndexSegmentEnd(timelineItem, << nextTimelineItem >>,
                                    _scaledPeriodEnd[f])
  IN IF scaledTime.v <= 0 THEN Num(-1)
     ELSE IF segmentIndex < 0 \/ segmentIndex >= Len(tl) - 1 THEN Num(-1)
     ELSE IF timelineItem.duration = -1 THEN Num(-1)
     ELSE IF /\ rangeTo < nextTimelineItem.start
             /\ scaledTime.v >= rangeUp * scaledTime.d
     THEN fromIndexTime(nextTimelineItem.start, idx)
     ELSE Num(-1)

\* checkDiscontinuity(_time), after its _refreshTimeline()
checkDiscontinuityValue(f, idx, time) ==
  LET tl == idx.timeline
      scaledTime == toIndexTimeOfFraction(time, idx)
      segmentIndex == getSegmentIndex(idx, scaledTime)
      timelineItem == tl[segmentIndex + 1]
      nextTimelineItem == tl[segmentIndex + 2]
      rangeUp == timelineItem.start
      rangeTo == getIndexSegmentEnd(timelineItem, << nextTimelineItem >>,
                                    _scaledPeriodEnd[f])
  IN IF scaledTime.v <= 0 THEN Num(-1)
     ELSE IF segmentIndex < 0 \/ segmentIndex >= Len(tl) - 1 THEN Num(-1)
     ELSE IF timelineItem.duration = -1 THEN Num(-1)
     ELSE IF /\ rangeTo < nextTimelineItem.start
             /\ scaledTime.v >= rangeUp * scaledTime.d
             /\ rangeTo * scaledTime.d - scaledTime.v < idx.timescale * scaledTime.d
     THEN fromIndexTime(nextTimelineItem.start, idx)
     ELSE Num(-1)

\* a canBeOutOfSyncError that takes any network error
canBeOutOfSyncErrorValue_AnyStatus(f, error) ==
  IF ~_isDynamic[f] THEN FALSE
  ELSE error.type = "NetworkError"

\* canBeOutOfSyncError(error)
canBeOutOfSyncErrorValue(f, error) ==
  IF ~_isDynamic[f] THEN FALSE
  ELSE error.type = "NetworkError" /\ error.status = 404

\* isFinished(), on the index it reads
isFinishedValue(f, idx) ==
  IF ~_isDynamic[f] THEN TRUE
  ELSE IF IsNullish(_scaledPeriodEnd[f]) \/ Len(idx.timeline) = 0 THEN FALSE
  ELSE LET lastTime == getIndexSegmentEnd(idx.timeline[Len(idx.timeline)], <<>>,
                                          _scaledPeriodEnd[f])
       \* (lastTime + 1 / 60) >= this._scaledPeriodEnd
       IN 60 * lastTime + 1 >= 60 * _scaledPeriodEnd[f].v

----------------------------------------------------------------------------
(* Objects and inputs *)

Facades == {"a", "b"}
Calculators == {"k1", "k2"}
IndexIds == {1, 2}

\* no ITimelineIndex at this reference
NoIndex == [timeline |-> <<>>, timescale |-> 0, indexTimeOffset |-> 0]
\* no call made yet, or the environment moved since the last one
NoRet == [op |-> "none"]

\* The `S` elements a manifest may declare
RawStarts == {Undefined, NaN, Num(0), Num(10)}
RawDurations == {Undefined, NaN, Num(-1), Num(5), Num(10)}
RawRepeats == {Undefined, NaN, Num(2)}
RawEntries == [start : RawStarts, duration : RawDurations, repeatCount : RawRepeats]
RawTimelines == UNION { [1..n -> RawEntries] : n \in 0..MaxRawLen }

\* The rest of the constructor's arguments, as run in SpecNorm
CtorSettings ==
  { [timescale |-> 1, presentationTimeOffset |-> Undefined, periodStart |-> 0,
     periodEnd |-> Undefined, isDynamic |-> TRUE, receivedTime |-> Undefined,
     manifestBoundsCalculator |-> "k1"],
    [timescale |-> 2, presentationTimeOffset |-> Num(3), periodStart |-> 5,
     periodEnd |-> Num(20), isDynamic |-> FALSE, receivedTime |-> Num(0),
     manifestBoundsCalculator |-> "k2"] }

\* (index, context) as the constructor receives them
CtorArgs(raw, s) ==
  [index |-> [timeline |-> raw, timescale |-> s.timescale,
              presentationTimeOffset |-> s.presentationTimeOffset],
   context |-> [manifestBoundsCalculator |-> s.manifestBoundsCalculator,
                periodStart |-> s.periodStart, periodEnd |-> s.periodEnd,
                isDynamic |-> s.isDynamic, receivedTime |-> s.receivedTime]]

NoArgs == CtorArgs(<<>>, CHOOSE s \in CtorSettings : s.timescale = 1)

----------------------------------------------------------------------------
(* SpecNorm: the constructor of facade "a", one loop iteration per step *)

NormInit ==
  /\ _index = [f \in Facades |-> 1]
  /\ _isDynamic = [f \in Facades |-> FALSE]
  /\ _scaledPeriodStart = [f \in Facades |-> 0]
  /\ _scaledPeriodEnd = [f \in Facades |-> Undefined]
  /\ _lastUpdate = [f \in Facades |-> 0]
  /\ _manifestBoundsCalculator = [f \in Facades |-> "k1"]
  /\ indexes = [id \in IndexIds |-> NoIndex]
  /\ minimumBound = [c \in Calculators |-> Undefined]
  /\ now = TickMs
  /\ ret = NoRet
  /\ \E raw \in RawTimelines, s \in CtorSettings : args = CtorArgs(raw, s)
  /\ i = 1
  /\ timeline = <<>>
  /\ accepted = <<>>
  /\ pc = "loop"

\* for (let i = 0; i < initialTimeline.length; i++) { ... }
CtorIteration ==
  /\ pc = "loop"
  /\ i <= Len(args.index.timeline)
  /\ LET el == TimelineElement(args.index.timeline, i, timeline,
                               ScaledStart(args.index, args.context))
     IN /\ timeline' = PushElement(timeline, el)
        /\ accepted' = IF el # <<>> THEN Append(accepted, i) ELSE accepted
  /\ i' = i + 1
  /\ UNCHANGED <<facadeVars, indexes, minimumBound, now, ret, args, pc>>

\* the assignments after the loop (lines 258-285)
CtorFields ==
  /\ pc = "loop"
  /\ i > Len(args.index.timeline)
  /\ LET idx == ConstructedIndex(args.index, args.context, timeline)
     IN /\ indexes' = [indexes EXCEPT ![1] = idx]
        /\ _index' = [_index EXCEPT !["a"] = 1]
        /\ _manifestBoundsCalculator' =
             [_manifestBoundsCalculator EXCEPT
                !["a"] = args.context.manifestBoundsCalculator]
        /\ _lastUpdate' =
             [_lastUpdate EXCEPT !["a"] = ConstructedLastUpdate(args.context, now)]
        /\ _isDynamic' = [_isDynamic EXCEPT !["a"] = args.context.isDynamic]
        /\ _scaledPeriodStart' =
             [_scaledPeriodStart EXCEPT !["a"] = ConstructedPeriodStart(args.context, idx)]
        /\ _scaledPeriodEnd' =
             [_scaledPeriodEnd EXCEPT !["a"] = ConstructedPeriodEnd(args.context, idx)]
  /\ pc' = "done"
  /\ UNCHANGED <<minimumBound, now, ret, args, i, timeline, accepted>>

NormNext == CtorIteration \/ CtorFields

SpecNorm == NormInit /\ [][NormNext]_vars

----------------------------------------------------------------------------
(* Spec: the facades in use *)

\* The manifests the facades are constructed from
RawGapless ==
  << [start |-> Num(0), duration |-> Num(10), repeatCount |-> Num(2)],
     [start |-> Undefined, duration |-> Num(5), repeatCount |-> Undefined] >>
RawWithGap ==
  << [start |-> Num(0), duration |-> Num(10), repeatCount |-> Undefined],
     [start |-> Num(20), duration |-> Num(10), repeatCount |-> Undefined] >>

Manifests ==
  { CtorArgs(RawGapless,
      [timescale |-> 1, presentationTimeOffset |-> Undefined, periodStart |-> 0,
       periodEnd |-> Undefined, isDynamic |-> TRUE, receivedTime |-> Undefined,
       manifestBoundsCalculator |-> "k1"]),
    CtorArgs(RawWithGap,
      [timescale |-> 1, presentationTimeOffset |-> Undefined, periodStart |-> 0,
       periodEnd |-> Num(30), isDynamic |-> TRUE, receivedTime |-> Num(0),
       manifestBoundsCalculator |-> "k2"]),
    CtorArgs(RawWithGap,
      [timescale |-> 2, presentationTimeOffset |-> Num(10), periodStart |-> 0,
       periodEnd |-> Num(10), isDynamic |-> FALSE, receivedTime |-> Undefined,
       manifestBoundsCalculator |-> "k1"]),
    CtorArgs(<<>>,
      [timescale |-> 1, presentationTimeOffset |-> Undefined, periodStart |-> 0,
       periodEnd |-> Undefined, isDynamic |-> TRUE, receivedTime |-> Undefined,
       manifestBoundsCalculator |-> "k2"]) }

\* what the bounds calculators answer, seconds
BoundValues == {5, 30}
\* the arguments the queries are made with
ToValues == {0, 40}
WindowValues == { <<0, 40>> }
TimeValues == {Div(10, 1), Div(25, 1)}
SegmentValues == { [isInit |-> TRUE, time |-> 0],
                   [isInit |-> FALSE, time |-> 20] }
ErrorValues == { [type |-> "NetworkError", status |-> 404],
                 [type |-> "NetworkError", status |-> 500],
                 [type |-> "OtherError", status |-> 404] }

\* an ITimelineIndex no facade references is gone
Collect(refs, objs) ==
  [id \in IndexIds |-> IF \E f \in Facades : refs[f] = id THEN objs[id] ELSE NoIndex]

\* new TimelineRepresentationIndex(index, context), held as facade f
Construct(f, m) ==
  LET id == CHOOSE x \in IndexIds : \A g \in Facades \ {f} : _index[g] # x
      tl == ConstructorLoop(m.index.timeline, 1, <<>>, ScaledStart(m.index, m.context))
      idx == ConstructedIndex(m.index, m.context, tl)
      refs == [_index EXCEPT ![f] = id]
  IN /\ _index' = refs
     /\ indexes' = Collect(refs, [indexes EXCEPT ![id] = idx])
     /\ _manifestBoundsCalculator' =
          [_manifestBoundsCalculator EXCEPT ![f] = m.context.manifestBoundsCalculator]
     /\ _lastUpdate' = [_lastUpdate EXCEPT ![f] = ConstructedLastUpdate(m.context, now)]
     /\ _isDynamic' = [_isDynamic EXCEPT ![f] = m.context.isDynamic]
     /\ _scaledPeriodStart' =
          [_scaledPeriodStart EXCEPT ![f] = ConstructedPeriodStart(m.context, idx)]
     /\ _scaledPeriodEnd' =
          [_scaledPeriodEnd EXCEPT ![f] = ConstructedPeriodEnd(m.context, idx)]
     /\ ret' = NoRet
     /\ UNCHANGED <<minimumBound, now, ctorVars>>

Init ==
  /\ \E ma \in Manifests, mb \in Manifests :
       LET Of(f) == IF f = "a" THEN ma ELSE mb
           Built(f) == ConstructedIndex(Of(f).index, Of(f).context,
                         ConstructorLoop(Of(f).index.timeline, 1, <<>>,
                                         ScaledStart(Of(f).index, Of(f).context)))
       IN /\ _index = [f \in Facades |-> IF f = "a" THEN 1 ELSE 2]
          /\ indexes = [id \in IndexIds |-> IF id = 1 THEN Built("a") ELSE Built("b")]
          /\ _manifestBoundsCalculator =
               [f \in Facades |-> Of(f).context.manifestBoundsCalculator]
          /\ _lastUpdate = [f \in Facades |-> ConstructedLastUpdate(Of(f).context, 0)]
          /\ _isDynamic = [f \in Facades |-> Of(f).context.isDynamic]
          /\ _scaledPeriodStart =
               [f \in Facades |-> ConstructedPeriodStart(Of(f).context, Built(f))]
          /\ _scaledPeriodEnd =
               [f \in Facades |-> ConstructedPeriodEnd(Of(f).context, Built(f))]
  /\ minimumBound = [c \in Calculators |-> Undefined]
  /\ now = 0
  /\ ret = NoRet
  /\ args = NoArgs
  /\ i = 1
  /\ timeline = <<>>
  /\ accepted = <<>>
  /\ pc = "idle"

\* what a query leaves unchanged
QueryFrame ==
  UNCHANGED <<facadeVars, minimumBound, now, ctorVars>>

\* getInitSegment()
getInitSegment(f) ==
  /\ ret' = [op |-> "getInitSegment", f |-> f, arg |-> <<>>,
             val |-> getInitSegmentOf(Index(f))]
  /\ UNCHANGED indexes
  /\ QueryFrame

\* getSegments(from, duration)
getSegments(f, from, duration) ==
  /\ indexes' = AfterRefresh(f)
  /\ ret' = [op |-> "getSegments", f |-> f, arg |-> <<from, duration>>,
             val |-> getSegmentsFromTimeline(Refreshed(f), from, duration,
                                             _scaledPeriodEnd[f])]
  /\ QueryFrame

\* shouldRefresh(_up, to)
shouldRefresh(f, up, to) ==
  /\ indexes' = AfterRefresh(f)
  /\ ret' = [op |-> "shouldRefresh", f |-> f, arg |-> <<up, to>>,
             val |-> shouldRefreshValue(f, Refreshed(f), to)]
  /\ QueryFrame

\* getFirstPosition()
getFirstPosition(f) ==
  /\ indexes' = AfterRefresh(f)
  /\ ret' = [op |-> "getFirstPosition", f |-> f, arg |-> <<>>,
             val |-> getFirstPositionValue(Refreshed(f))]
  /\ QueryFrame

\* getLastPosition()
getLastPosition(f) ==
  /\ indexes' = AfterRefresh(f)
  /\ ret' = [op |-> "getLastPosition", f |-> f, arg |-> <<>>,
             val |-> getLastPositionValue(f, Refreshed(f))]
  /\ QueryFrame

\* isSegmentStillAvailable(segment): an init segment returns before the
\* eviction pass
isSegmentStillAvailable(f, segment) ==
  /\ indexes' = IF segment.isInit THEN indexes ELSE AfterRefresh(f)
  /\ ret' = [op |-> "isSegmentStillAvailable", f |-> f, arg |-> <<segment>>,
             val |-> isSegmentStillAvailableValue(
                       IF segment.isInit THEN Index(f) ELSE Refreshed(f), segment)]
  /\ QueryFrame

\* checkDiscontinuity(_time)
checkDiscontinuity(f, time) ==
  /\ indexes' = AfterRefresh(f)
  /\ ret' = [op |-> "checkDiscontinuity", f |-> f, arg |-> <<time>>,
             val |-> checkDiscontinuityValue(f, Refreshed(f), time)]
  /\ QueryFrame

\* canBeOutOfSyncError(error)
canBeOutOfSyncError(f, error) ==
  /\ ret' = [op |-> "canBeOutOfSyncError", f |-> f, arg |-> <<error>>,
             val |-> canBeOutOfSyncErrorValue(f, error)]
  /\ UNCHANGED indexes
  /\ QueryFrame

\* isFinished(): reads this._index.timeline as it is
isFinished(f) ==
  /\ ret' = [op |-> "isFinished", f |-> f, arg |-> <<>>,
             val |-> isFinishedValue(f, Index(f))]
  /\ UNCHANGED indexes
  /\ QueryFrame

\* an _addSegments that appends one segment to the timeline
_addSegments_Appending(f) ==
  /\ ret' = [op |-> "_addSegments", f |-> f, arg |-> <<>>, val |-> Undefined]
  /\ indexes' = [indexes EXCEPT ![_index[f]].timeline =
                   Append(@, [start |-> IF @ = <<>> THEN 0 ELSE RunEnd(@[Len(@)]),
                              duration |-> 1, repeatCount |-> 0])]
  /\ QueryFrame

\* _addSegments(): a warning only
_addSegments(f) ==
  /\ ret' = [op |-> "_addSegments", f |-> f, arg |-> <<>>, val |-> Undefined]
  /\ UNCHANGED indexes
  /\ QueryFrame

\* an _update that leaves the last-update time of the old manifest
_update_StaleTime(a, newIndex) ==
  LET refs == [_index EXCEPT ![a] = _index[newIndex]]
  IN /\ _index' = refs
     /\ indexes' = Collect(refs, indexes)
     /\ _isDynamic' = [_isDynamic EXCEPT ![a] = _isDynamic[newIndex]]
     /\ _scaledPeriodStart' =
          [_scaledPeriodStart EXCEPT ![a] = _scaledPeriodStart[newIndex]]
     /\ _scaledPeriodEnd' = [_scaledPeriodEnd EXCEPT ![a] = _scaledPeriodEnd[newIndex]]
     /\ _lastUpdate' = _lastUpdate
     /\ _manifestBoundsCalculator' =
          [_manifestBoundsCalculator EXCEPT ![a] = _manifestBoundsCalculator[newIndex]]
     /\ ret' = [op |-> "_update", f |-> a, arg |-> <<newIndex>>, val |-> Undefined]
     /\ UNCHANGED <<minimumBound, now, ctorVars>>

\* a._update(newIndex): the six fields are assigned from newIndex's; _index
\* is assigned the reference newIndex holds
_update(a, newIndex) ==
  LET refs == [_index EXCEPT ![a] = _index[newIndex]]
  IN /\ _index' = refs
     /\ indexes' = Collect(refs, indexes)
     /\ _isDynamic' = [_isDynamic EXCEPT ![a] = _isDynamic[newIndex]]
     /\ _scaledPeriodStart' =
          [_scaledPeriodStart EXCEPT ![a] = _scaledPeriodStart[newIndex]]
     /\ _scaledPeriodEnd' = [_scaledPeriodEnd EXCEPT ![a] = _scaledPeriodEnd[newIndex]]
     /\ _lastUpdate' = [_lastUpdate EXCEPT ![a] = _lastUpdate[newIndex]]
     /\ _manifestBoundsCalculator' =
          [_manifestBoundsCalculator EXCEPT ![a] = _manifestBoundsCalculator[newIndex]]
     /\ ret' = [op |-> "_update", f |-> a, arg |-> <<newIndex>>, val |-> Undefined]
     /\ UNCHANGED <<minimumBound, now, ctorVars>>

\* the bounds calculator's answer changes
SetMinimumBound(c, b) ==
  /\ minimumBound[c] # b
  /\ minimumBound' = [minimumBound EXCEPT ![c] = b]
  /\ ret' = NoRet
  /\ UNCHANGED <<facadeVars, indexes, now, ctorVars>>

\* performance.now() advances
Tick ==
  /\ now + TickMs <= MaxNow
  /\ now' = now + TickMs
  /\ ret' = NoRet
  /\ UNCHANGED <<facadeVars, indexes, minimumBound, ctorVars>>

Next ==
  \/ \E f \in Facades, m \in Manifests : Construct(f, m)
  \/ \E f \in Facades : getInitSegment(f)
  \/ \E f \in Facades, w \in WindowValues : getSegments(f, w[1], w[2])
  \/ \E f \in Facades, to \in ToValues : shouldRefresh(f, 0, to)
  \/ \E f \in Facades : getFirstPosition(f)
  \/ \E f \in Facades : getLastPosition(f)
  \/ \E f \in Facades, segment \in SegmentValues : isSegmentStillAvailable(f, segment)
  \/ \E f \in Facades, time \in TimeValues : checkDiscontinuity(f, time)
  \/ \E f \in Facades, error \in ErrorValues : canBeOutOfSyncError(f, error)
  \/ \E f \in Facades : isFinished(f)
  \/ \E f \in Facades : _addSegments(f)
  \/ \E a \in Facades : \E newIndex \in Facades \ {a} : _update(a, newIndex)
  \/ \E c \in Calculators, b \in {Undefined} \cup {Num(x) : x \in BoundValues} :
       SetMinimumBound(c, b)
  \/ Tick

Spec == Init /\ [][Next]_vars

----------------------------------------------------------------------------
(* The facade's claims (Spec) *)

\* the methods that return a value to the caller
QueryOps == {"getInitSegment", "getSegments", "shouldRefresh", "getFirstPosition",
             "getLastPosition", "isSegmentStillAvailable", "checkDiscontinuity",
             "canBeOutOfSyncError", "isFinished"}

\* the methods whose first statement is this._refreshTimeline()
RefreshingOps == {"getSegments", "shouldRefresh", "getFirstPosition",
                  "getLastPosition", "checkDiscontinuity"}

\* what the method `op` of facade f returns for `arg` when it computes on idx
ValueOn(op, f, arg, idx) ==
  CASE op = "getInitSegment" -> getInitSegmentOf(idx)
    [] op = "getSegments" ->
         getSegmentsFromTimeline(idx, arg[1], arg[2], _scaledPeriodEnd[f])
    [] op = "shouldRefresh" -> shouldRefreshValue(f, idx, arg[2])
    [] op = "getFirstPosition" -> getFirstPositionValue(idx)
    [] op = "getLastPosition" -> getLastPositionValue(f, idx)
    [] op = "isSegmentStillAvailable" -> isSegmentStillAvailableValue(idx, arg[1])
    [] op = "checkDiscontinuity" -> checkDiscontinuityValue(f, idx, arg[1])
    [] op = "canBeOutOfSyncError" -> canBeOutOfSyncErrorValue(f, arg[1])
    [] op = "isFinished" -> isFinishedValue(f, idx)

\* C1 as stated: whatever public operation was just called, the value it
\* returned is the one computed on the timeline pruned to the bounds
\* calculator's current minimum bound.
C1_ValueFromPrunedTimeline ==
  ret.op \in QueryOps =>
    ret.val = ValueOn(ret.op, ret.f, ret.arg, Refreshed(ret.f))

\* two facades agree on every field and on every answer
SameFields(f, g) ==
  /\ _index[f] = _index[g]
  /\ _isDynamic[f] = _isDynamic[g]
  /\ _scaledPeriodStart[f] = _scaledPeriodStart[g]
  /\ _scaledPeriodEnd[f] = _scaledPeriodEnd[g]
  /\ _lastUpdate[f] = _lastUpdate[g]
  /\ _manifestBoundsCalculator[f] = _manifestBoundsCalculator[g]

SameAnswers(f, g) ==
  /\ \A to \in ToValues :
       shouldRefreshValue(f, Refreshed(f), to) = shouldRefreshValue(g, Refreshed(g), to)
  /\ getLastPositionValue(f, Refreshed(f)) = getLastPositionValue(g, Refreshed(g))
  /\ getFirstPositionValue(Refreshed(f)) = getFirstPositionValue(Refreshed(g))
  /\ isFinishedValue(f, Index(f)) = isFinishedValue(g, Index(g))
  /\ \A time \in TimeValues :
       checkDiscontinuityValue(f, Refreshed(f), time) =
         checkDiscontinuityValue(g, Refreshed(g), time)
  /\ \A error \in ErrorValues :
       canBeOutOfSyncErrorValue(f, error) = canBeOutOfSyncErrorValue(g, error)
  /\ \A w \in WindowValues :
       getSegmentsFromTimeline(Refreshed(f), w[1], w[2], _scaledPeriodEnd[f]) =
         getSegmentsFromTimeline(Refreshed(g), w[1], w[2], _scaledPeriodEnd[g])
  /\ \A segment \in SegmentValues :
       isSegmentStillAvailableValue(Refreshed(f), segment) =
         isSegmentStillAvailableValue(Refreshed(g), segment)

\* C2: right after a._update(b), a holds b's ITimelineIndex, dynamic flag,
\* scaled period start and end, last-update time and bounds calculator, all
\* six at once; and as long as a holds the index it took from b, every query
\* on a returns what the same query on b returns.
C2_UpdateTakesEverything ==
  /\ ret.op = "_update" => SameFields(ret.f, ret.arg[1])
  /\ \A f \in Facades, g \in Facades :
       _index[f] = _index[g] => SameFields(f, g) /\ SameAnswers(f, g)

\* C2 witness: a has just been updated from b, and what it took is a dynamic
\* index with a known period end, received at time 0 while the clock is
\* later, on calculator k2.
C2_Witness ==
  /\ ret.op = "_update" /\ ret.f = "a"
  /\ _isDynamic["a"] /\ _scaledPeriodEnd["a"] = Num(30)
  /\ _manifestBoundsCalculator["a"] = "k2"
  /\ now > 0 /\ _lastUpdate["a"] = 0 /\ _lastUpdate["b"] = 0

\* C3 as stated: a query made on one facade, eviction pass included, never
\* changes the timeline read through another facade.
C3_NoEvictionThroughAnotherFacade ==
  [][\A f \in Facades, g \in Facades :
       (g # f /\ ret'.op \in QueryOps /\ ret'.f = f)
         => indexes'[_index'[g]].timeline = indexes[_index[g]].timeline]_vars

\* C4: a public query made while the facade's bounds calculator answers
\* "unknown" leaves every timeline as it was.
C4_UnknownBoundKeepsTimeline ==
  [][(ret'.op \in QueryOps /\ IsNullish(getMinimumBound(ret'.f)))
       => indexes' = indexes]_vars

\* C4 witness: a query with an eviction pass has just run under an unknown
\* bound, on a timeline whose first entry ends at or before index time
\* toIndexTime(0).
C4_Witness ==
  /\ ret.op \in RefreshingOps
  /\ IsNullish(getMinimumBound(ret.f))
  /\ Index(ret.f).timeline # <<>>
  /\ RunEnd(Index(ret.f).timeline[1]) <= toIndexTime(0, Index(ret.f))

\* C5: right after a query that ran the eviction pass, and for as long as the
\* bound stays the same, running the pass again leaves the timeline as it is;
\* and for every timeline held and every known bound, evicting twice at that
\* bound gives what evicting once gives.
C5_EvictionIdempotent ==
  /\ ret.op \in RefreshingOps => RefreshedTimeline(ret.f) = Index(ret.f).timeline
  /\ \A f \in Facades, b \in BoundValues :
       LET pos == toIndexTime(b, Index(f))
           once == clearTimelineFromPosition(Index(f).timeline, pos)
       IN clearTimelineFromPosition(once, pos) = once

\* C5 witness: a query has just evicted part of a timeline; a second pass
\* finds a non-empty timeline under a known bound.
C5_Witness ==
  /\ ret.op \in RefreshingOps
  /\ ~IsNullish(getMinimumBound(ret.f))
  /\ Len(Index(ret.f).timeline) = 1
  /\ Index(ret.f).timeline[1].start > 0

\* C10: shouldRefresh on a static index returns false, whatever its argument,
\* the timeline (emptied or not), the bound and the time elapsed.
C10_StaticNeverRefreshes ==
  /\ (ret.op = "shouldRefresh" /\ ~_isDynamic[ret.f]) => ret.val = FALSE
  /\ \A f \in Facades, to \in ToValues :
       ~_isDynamic[f] => shouldRefreshValue(f, Refreshed(f), to) = FALSE

\* C10 witness: shouldRefresh has just answered on a static index whose
\* timeline the eviction pass emptied, time having passed since its update.
C10_Witness ==
  /\ ret.op = "shouldRefresh" /\ ~_isDynamic[ret.f]
  /\ Index(ret.f).timeline = <<>>
  /\ ~IsNullish(getMinimumBound(ret.f))
  /\ now > _lastUpdate[ret.f]

----------------------------------------------------------------------------
(* The normalizer's claims (SpecNorm) *)

\* the raw `S` elements given to the constructor
Raw == args.index.timeline

\* the position in `timeline` of the entry pushed for raw position j
\* (j accepted), else of the last entry pushed before raw position j; 0 if none
PushedUpTo(j) == Cardinality({k \in 1..Len(accepted) : accepted[k] <= j})

IsAccepted(j) == \E k \in 1..Len(accepted) : accepted[k] = j

\* strictly ascending by start, and each entry ends at or before the next starts
AscendingNonOverlapping(tl) ==
  \A k \in 1..(Len(tl) - 1) :
    /\ tl[k].start < tl[k + 1].start
    /\ tl[k].duration # -1 => RunEnd(tl[k]) <= tl[k + 1].start

\* C6 as stated: the timeline built from any raw sequence is strictly
\* ascending by start and non-overlapping.
C6_Original == AscendingNonOverlapping(timeline)

\* every processed raw entry declares a positive duration, and a declared
\* start is at or after the end of the entry accepted before it
C6_DeclaredInOrder ==
  \A j \in 1..(i - 1) :
    /\ Raw[j].duration.k = "num" /\ Raw[j].duration.v > 0
    /\ (Raw[j].start.k = "num" /\ PushedUpTo(j - 1) > 0)
         => Raw[j].start.v >= RunEnd(timeline[PushedUpTo(j - 1)])

\* C6 amended: when every raw entry declares a positive duration and every
\* declared start is at or after the end of the entry accepted before it, the
\* timeline built is strictly ascending by start and non-overlapping (the
\* starts the normalizer infers never break the order).
C6_Amended == C6_DeclaredInOrder => AscendingNonOverlapping(timeline)

\* C6 witness: the loop is over, two entries were accepted in order and the
\* second one's start was inferred.
C6_Witness ==
  /\ pc = "done" /\ C6_DeclaredInOrder
  /\ Len(timeline) = 2 /\ Raw[accepted[2]].start = Undefined
  /\ timeline[1].repeatCount > 0

\* C7 as stated: a raw entry that omits start, processed when the last
\* resolved entry has duration -1, is dropped.
C7_DroppedAfterOpenEnded ==
  \A j \in 1..(i - 1) :
    (/\ IsNullish(Raw[j].start)
     /\ PushedUpTo(j - 1) > 0
     /\ timeline[PushedUpTo(j - 1)].duration = -1)
      => ~IsAccepted(j)

\* C8: an accepted raw entry that omits start and follows a resolved entry of
\* known duration starts at previous.start + previous.duration *
\* (previous.repeatCount + 1); an absent repeatCount becomes 0; and the raw
\* list [{start:0,duration:10,repeatCount:2},{duration:5}] at timescale 1 and
\* period start 0 gives [{0,10,2},{30,5,0}].
C8_InferredStart ==
  /\ \A j \in 1..(i - 1) :
       IsAccepted(j) =>
         LET e == timeline[PushedUpTo(j)]
             p == PushedUpTo(j - 1)
         IN /\ (IsNullish(Raw[j].start) /\ p > 0 /\ timeline[p].duration # -1)
                 => e.start = timeline[p].start +
                              timeline[p].duration * (timeline[p].repeatCount + 1)
            /\ IsNullish(Raw[j].repeatCount) => e.repeatCount = 0
  /\ (/\ pc = "done"
      /\ args.index.timescale = 1 /\ args.context.periodStart = 0
      /\ Raw = << [start |-> Num(0), duration |-> Num(10), repeatCount |-> Num(2)],
                  [start |-> Undefined, duration |-> Num(5), repeatCount |-> Undefined] >>)
       => timeline = << [start |-> 0, duration |-> 10, repeatCount |-> 2],
                        [start |-> 30, duration |-> 5, repeatCount |-> 0] >>

\* C8 witness: the scenario's raw list has been normalized.
C8_Witness ==
  /\ pc = "done"
  /\ args.index.timescale = 1 /\ args.context.periodStart = 0
  /\ Raw = << [start |-> Num(0), duration |-> Num(10), repeatCount |-> Num(2)],
              [start |-> Undefined, duration |-> Num(5), repeatCount |-> Undefined] >>
  /\ Len(timeline) = 2 /\ timeline[2].start = 30

\* what the raw entry at position j needs to be accepted: a start that is not
\* NaN (an omitted one is inferred), a duration that is declared and not NaN
\* or that the next raw entry's declared start gives, and no NaN repeatCount
C9_Acceptable(j) ==
  /\ ~isNaN(Raw[j].start)
  /\ \/ (~IsNullish(Raw[j].duration) /\ ~isNaN(Raw[j].duration))
     \/ (/\ j < Len(Raw)
         /\ ~IsNullish(Raw[j + 1].start) /\ ~isNaN(Raw[j + 1].start))
  /\ ~isNaN(Raw[j].repeatCount)

\* C9: a raw entry is accepted iff its start and duration are resolved and its
\* repeatCount is not NaN; a dropped entry does not stop the loop; the
\* timeline holds one entry per accepted raw entry, in the raw order, each
\* carrying the values its raw entry declares.
C9_AcceptedIffResolved ==
  /\ \A j \in 1..(i - 1) : IsAccepted(j) <=> C9_Acceptable(j)
  /\ Len(timeline) = Len(accepted)
  /\ \A k \in 1..Len(accepted) : accepted[k] \in 1..(i - 1)
  /\ \A k \in 1..(Len(accepted) - 1) : accepted[k] < accepted[k + 1]
  /\ \A k \in 1..Len(accepted) :
       LET r == Raw[accepted[k]]
       IN /\ r.start.k = "num" => timeline[k].start = r.start.v
          /\ r.duration.k = "num" => timeline[k].duration = r.duration.v
          /\ r.repeatCount.k = "num" => timeline[k].repeatCount = r.repeatCount.v
  /\ pc = "done" => i = Len(Raw) + 1

\* C9 witness: the loop is over, the first raw entry was dropped and the
\* second one accepted.
C9_Witness ==
  /\ pc = "done" /\ Len(Raw) = 2
  /\ ~IsAccepted(1) /\ IsAccepted(2)


\* C22: a raw entry that declares no duration (or NaN) is accepted only when
\* the raw entry right after it declares a start, and then with the duration
\* nextRawStart - thisStart; when it is the last raw entry, or the entry
\* right after it omits start, it is dropped.
C22_DurationFromNextDeclaredStart ==
  \A j \in 1..(i - 1) :
    (IsNullish(Raw[j].duration) \/ isNaN(Raw[j].duration)) =>
      /\ IsAccepted(j) =>
           /\ j < Len(Raw)
           /\ Raw[j + 1].start.k = "num"
           /\ timeline[PushedUpTo(j)].duration =
                Raw[j + 1].start.v - timeline[PushedUpTo(j)].start
      /\ (j = Len(Raw) \/ IsNullish(Raw[j + 1].start)) => ~IsAccepted(j)

\* C22 witness: the loop is over; the first raw entry declared start 10 and
\* no duration, the second declared start 0, and the first was accepted.
C22_Witness ==
  /\ pc = "done" /\ Len(Raw) = 2
  /\ Raw[1].start = Num(10) /\ IsNullish(Raw[1].duration)
  /\ Raw[2].start = Num(0)
  /\ IsAccepted(1)

\* C23 as stated: once the facade is constructed, a first raw entry that
\* omits start and is accepted starts at the facade's _scaledPeriodStart,
\* the period start converted to index time.
C23_FirstStartIsScaledPeriodStart ==
  (pc = "done" /\ Len(Raw) > 0 /\ IsNullish(Raw[1].start) /\ IsAccepted(1))
    => timeline[1].start = _scaledPeriodStart["a"]

----------------------------------------------------------------------------
(* SpecQuery: one facade, queried while its clock and its bound move *)

\* latest clock reading in SpecQuery, ms
QueryMaxNow == 9000
\* length of one clock step in SpecQuery, ms
QueryStepMs == 1000

RawSingle ==
  << [start |-> Num(0), duration |-> Num(4), repeatCount |-> Num(0)] >>
RawThreeRuns ==
  << [start |-> Num(0), duration |-> Num(60), repeatCount |-> Undefined],
     [start |-> Num(120), duration |-> Num(60), repeatCount |-> Undefined],
     [start |-> Num(240), duration |-> Num(59), repeatCount |-> Undefined] >>
RawRepeated ==
  << [start |-> Num(10), duration |-> Num(5), repeatCount |-> Num(2)] >>
RawFromPeriodStart ==
  << [start |-> Undefined, duration |-> Num(5), repeatCount |-> Num(2)] >>
RawOpenEnded ==
  << [start |-> Num(0), duration |-> Num(10), repeatCount |-> Undefined],
     [start |-> Undefined, duration |-> Num(-1), repeatCount |-> Undefined] >>

\* a manifest of facade "a" in SpecQuery; its bounds calculator is k1 and it
\* is received when it is constructed
QueryManifest(raw, timescale, presentationTimeOffset, periodStart, periodEnd, isDynamic) ==
  CtorArgs(raw,
    [timescale |-> timescale, presentationTimeOffset |-> presentationTimeOffset,
     periodStart |-> periodStart, periodEnd |-> periodEnd,
     isDynamic |-> isDynamic, receivedTime |-> Undefined,
     manifestBoundsCalculator |-> "k1"])

QueryManifests ==
  { QueryManifest(RawSingle, 1, Undefined, 0, Undefined, TRUE),
    QueryManifest(RawWithGap, 1, Num(0), 0, Num(30), TRUE),
    QueryManifest(RawThreeRuns, 60, Undefined, 0, Num(5), TRUE),
    QueryManifest(RawRepeated, 1, Num(10), 0, Undefined, TRUE),
    QueryManifest(RawFromPeriodStart, 1, Undefined, 10, Undefined, TRUE),
    QueryManifest(RawOpenEnded, 1, Undefined, 0, Num(30), TRUE),
    QueryManifest(<<>>, 1, Undefined, 0, Undefined, TRUE),
    QueryManifest(RawWithGap, 2, Num(10), 0, Num(10), FALSE) }

\* the manifest of facade "b", which SpecQuery leaves alone
IdleManifest ==
  CtorArgs(<<>>,
    [timescale |-> 1, presentationTimeOffset |-> Undefined, periodStart |-> 0,
     periodEnd |-> Undefined, isDynamic |-> FALSE, receivedTime |-> Undefined,
     manifestBoundsCalculator |-> "k2"])

QueryBoundValues == {2, 5, 15, 30}
QueryToValues == {4, 7, 9, 20, 30, 40}
\* seconds, whole or not
QueryTimeValues == {Div(0, 1), Div(2, 1), Div(4, 1), Div(5, 1), Div(19, 2),
                    Div(15, 1), Div(20, 1)}

QueryInit ==
  /\ \E m \in QueryManifests :
       LET Of(f) == IF f = "a" THEN m ELSE IdleManifest
           Built(f) == ConstructedIndex(Of(f).index, Of(f).context,
                         ConstructorLoop(Of(f).index.timeline, 1, <<>>,
                                         ScaledStart(Of(f).index, Of(f).context)))
       IN /\ _index = [f \in Facades |-> IF f = "a" THEN 1 ELSE 2]
          /\ indexes = [id \in IndexIds |-> IF id = 1 THEN Built("a") ELSE Built("b")]
          /\ _manifestBoundsCalculator =
               [f \in Facades |-> Of(f).context.manifestBoundsCalculator]
          /\ _lastUpdate = [f \in Facades |-> ConstructedLastUpdate(Of(f).context, 0)]
          /\ _isDynamic = [f \in Facades |-> Of(f).context.isDynamic]
          /\ _scaledPeriodStart =
               [f \in Facades |-> ConstructedPeriodStart(Of(f).context, Built(f))]
          /\ _scaledPeriodEnd =
               [f \in Facades |-> ConstructedPeriodEnd(Of(f).context, Built(f))]
  /\ minimumBound = [c \in Calculators |-> Undefined]
  /\ now = 0
  /\ ret = NoRet
  /\ args = NoArgs
  /\ i = 1
  /\ timeline = <<>>
  /\ accepted = <<>>
  /\ pc = "idle"

\* performance.now() advances by one step
Elapse ==
  /\ now + QueryStepMs <= QueryMaxNow
  /\ now' = now + QueryStepMs
  /\ ret' = NoRet
  /\ UNCHANGED <<facadeVars, indexes, minimumBound, ctorVars>>

QueryNext ==
  \/ getInitSegment("a")
  \/ \E w \in WindowValues : getSegments("a", w[1], w[2])
  \/ \E segment \in SegmentValues : isSegmentStillAvailable("a", segment)
  \/ _addSegments("a")
  \/ \E to \in QueryToValues : shouldRefresh("a", 0, to)
  \/ getFirstPosition("a")
  \/ getLastPosition("a")
  \/ \E time \in QueryTimeValues : checkDiscontinuity("a", time)
  \/ \E error \in ErrorValues : canBeOutOfSyncError("a", error)
  \/ isFinished("a")
  \/ \E b \in {Undefined} \cup {Num(x) : x \in QueryBoundValues} :
       SetMinimumBound("k1", b)
  \/ Elapse

SpecQuery == QueryInit /\ [][QueryNext]_vars

----------------------------------------------------------------------------
(* The queries' claims (SpecQuery) *)

\* what the clock of the facade SpecQuery queries has counted since its update
ElapsedMs == now - _lastUpdate["a"]
\* the end of the last entry of a non-empty timeline
LastEnd(tl) == getIndexSegmentEnd(tl[Len(tl)], <<>>, _scaledPeriodEnd["a"])

\* C11: on a dynamic index whose timeline is empty once the query's eviction
\* pass has run (declared empty, or emptied by that pass), getFirstPosition
\* and getLastPosition return null and shouldRefresh returns true, whatever
\* its arguments, the bound and the time elapsed.
C11_EmptyDynamicTimeline ==
  (ret.op \in {"getFirstPosition", "getLastPosition", "shouldRefresh"}
     /\ _isDynamic[ret.f] /\ Index(ret.f).timeline = <<>>)
    => IF ret.op = "shouldRefresh" THEN ret.val = TRUE ELSE ret.val = Null

\* C11 witness: getLastPosition has just answered on a dynamic index that
\* declared two entries and whose eviction pass, at bound 30, left none.
C11_Witness ==
  /\ ret.op = "getLastPosition" /\ _isDynamic[ret.f]
  /\ Index(ret.f).timeline = <<>>
  /\ _scaledPeriodEnd[ret.f] = Num(30)
  /\ getMinimumBound(ret.f) = Num(30)

\* C12 as stated: on a dynamic index with a non-empty timeline, shouldRefresh
\* returns false whenever `to` converted to index time (to * timescale +
\* indexTimeOffset) is at or before the end of the last entry, whatever the
\* time elapsed, the case of equality included.
C12_CoveredWindowNeverRefreshes ==
  (ret.op = "shouldRefresh" /\ _isDynamic[ret.f]
     /\ Index(ret.f).timeline # <<>>
     /\ toIndexTime(ret.arg[2], Index(ret.f)) <= LastEnd(Index(ret.f).timeline))
    => ret.val = FALSE

\* the number of whole durations D the elapsed time holds, in index time:
\* the n with n * D <= e < (n + 1) * D, for e = ElapsedMs * timescale / 1000
WholeDurationsElapsed(timescale, D) ==
  CHOOSE n \in 0..(ElapsedMs * timescale) :
    /\ n * D * MsPerSecond <= ElapsedMs * timescale
    /\ ElapsedMs * timescale < (n + 1) * D * MsPerSecond

\* C13 as stated: on a dynamic index whose last entry has a positive duration
\* D and ends at E, with e the elapsed time scaled, the theoretical last
\* position is E when e < D and E + floor(e / D) * D otherwise; and
\* shouldRefresh, asked about a window whose upper bound in index time is
\* past E, returns true if and only if e >= D.
C13_RefreshIffOneDurationElapsed ==
  LET idx == Index("a")
      last == idx.timeline[Len(idx.timeline)]
      E == LastEnd(idx.timeline)
      D == last.duration
  IN (_isDynamic["a"] /\ idx.timeline # <<>> /\ D > 0) =>
       /\ getTheoriticalLastPosition("a", idx) =
            Num(E + WholeDurationsElapsed(idx.timescale, D) * D)
       /\ (ret.op = "shouldRefresh" /\ toIndexTime(ret.arg[2], idx) > E)
            => ret.val = (ElapsedMs * idx.timescale >= D * MsPerSecond)

\* the scenario of C14: a dynamic index at timescale 1 whose timeline is
\* [{start: 0, duration: 4, repeatCount: 0}], 9 seconds after its last update
C14_Scenario ==
  /\ _isDynamic["a"]
  /\ Index("a").timescale = 1
  /\ Index("a").timeline = << [start |-> 0, duration |-> 4, repeatCount |-> 0] >>
  /\ ElapsedMs = 9 * MsPerSecond

\* C14 as stated: in that scenario the theoretical last position is 8,
\* shouldRefresh(_, 7) returns false and shouldRefresh(_, 9) returns true.
C14_Original ==
  C14_Scenario =>
    /\ getTheoriticalLastPosition("a", Index("a")) = Num(8)
    /\ (ret.op = "shouldRefresh" /\ ret.arg[2] = 7) => ret.val = FALSE
    /\ (ret.op = "shouldRefresh" /\ ret.arg[2] = 9) => ret.val = TRUE

\* C14 amended: in that scenario the two extrapolated segments are added to
\* the last entry's end, 4: the theoretical last position is 12, and
\* shouldRefresh(_, 7) and shouldRefresh(_, 9) both return true.
C14_Amended ==
  C14_Scenario =>
    /\ getTheoriticalLastPosition("a", Index("a")) = Num(12)
    /\ (ret.op = "shouldRefresh" /\ ret.arg[2] = 7) => ret.val = TRUE
    /\ (ret.op = "shouldRefresh" /\ ret.arg[2] = 9) => ret.val = TRUE

\* C14 witness: shouldRefresh(_, 7) has just answered in the scenario.
C14_Witness ==
  C14_Scenario /\ ret.op = "shouldRefresh" /\ ret.arg[2] = 7

\* the index times getSegmentIndex is asked about in SpecQuery
SearchTargets == { toIndexTimeOfFraction(time, Index("a")) : time \in QueryTimeValues }

\* C15 as stated: for the (ascending) timeline held and any target index
\* time, whenever getSegmentIndex returns an index i > 0, timeline[i].start
\* is at or before the target and no later entry starts at or before the
\* target; a target equal to an entry's start gets that entry's index.
C15_FloorSearch ==
  \A target \in SearchTargets :
    LET tl == Index("a").timeline
        found == getSegmentIndex(Index("a"), target)
    IN found > 0 =>
         /\ tl[found + 1].start * target.d <= target.v
         /\ \A later \in (found + 1)..(Len(tl) - 1) :
              tl[later + 1].start * target.d > target.v

\* the scaled time of the checkDiscontinuity call just made
AskedTime == toIndexTimeOfFraction(ret.arg[1], Index(ret.f))

\* C16 as stated: checkDiscontinuity returns the next entry's start, in
\* seconds, if and only if the entry getSegmentIndex finds has a successor,
\* ends strictly before the successor starts, holds the scaled time in
\* [start, end), and ends less than one timescale after it; and -1 in every
\* other case, a scaled time at or past the entry's end included.
C16_Original ==
  ret.op = "checkDiscontinuity" =>
    LET idx == Index(ret.f)
        tl == idx.timeline
        s == AskedTime
        k == getSegmentIndex(idx, s) + 1
        end == getIndexSegmentEnd(tl[k], << tl[k + 1] >>, _scaledPeriodEnd[ret.f])
        Reports == /\ k + 1 <= Len(tl)
                   /\ end < tl[k + 1].start
                   /\ tl[k].start * s.d <= s.v
                   /\ s.v < end * s.d
                   /\ end * s.d - s.v < idx.timescale * s.d
    IN ret.val = IF Reports THEN fromIndexTime(tl[k + 1].start, idx) ELSE Num(-1)

\* the entry checkDiscontinuity looks at for scaled time s: the last one
\* that starts strictly before s, or the first one when none does
LookedAt(tl, s, k) ==
  IF \E j \in 1..Len(tl) : tl[j].start * s.d < s.v
  THEN /\ tl[k].start * s.d < s.v
       /\ \A j \in (k + 1)..Len(tl) : tl[j].start * s.d >= s.v
  ELSE k = 1

\* C16 amended: checkDiscontinuity returns the next entry's start, in
\* seconds, if and only if the scaled time is positive and the entry looked
\* at has a concrete duration and a successor, ends strictly before the
\* successor starts, starts at or before the scaled time, and ends less than
\* one timescale after it; a scaled time at or past the entry's end, in the
\* gap, therefore gets the successor's start.  It returns -1 otherwise.
C16_Amended ==
  ret.op = "checkDiscontinuity" =>
    LET idx == Index(ret.f)
        tl == idx.timeline
        s == AskedTime
        Reports(k) == /\ s.v > 0
                      /\ LookedAt(tl, s, k)
                      /\ tl[k].duration # -1
                      /\ RunEnd(tl[k]) < tl[k + 1].start
                      /\ tl[k].start * s.d <= s.v
                      /\ RunEnd(tl[k]) * s.d - s.v < idx.timescale * s.d
    IN IF \E k \in 1..(Len(tl) - 1) : Reports(k)
       THEN \E k \in 1..(Len(tl) - 1) :
              Reports(k) /\ ret.val = fromIndexTime(tl[k + 1].start, idx)
       ELSE ret.val = Num(-1)

\* C16 witness: checkDiscontinuity has just been asked about second 15 on
\* the timeline [{0,10,0},{20,10,0}] at timescale 1, a time inside the gap,
\* and answered 20.
C16_Witness ==
  /\ ret.op = "checkDiscontinuity" /\ ret.arg[1] = Div(15, 1)
  /\ Index(ret.f).timescale = 1 /\ Len(Index(ret.f).timeline) = 2
  /\ RunEnd(Index(ret.f).timeline[1]) = 10
  /\ ret.val = Div(20, 1)

\* the scenario of C17: the timeline [{0,10,0},{20,10,0}] at timescale 1 and
\* offset 0, just asked for a discontinuity
C17_Scenario ==
  /\ ret.op = "checkDiscontinuity"
  /\ Index(ret.f).timescale = 1 /\ Index(ret.f).indexTimeOffset = 0
  /\ Index(ret.f).timeline =
       << [start |-> 0, duration |-> 10, repeatCount |-> 0],
          [start |-> 20, duration |-> 10, repeatCount |-> 0] >>

\* the end of the entry checkDiscontinuity looks at for the time just asked
LookedAtEnd ==
  LET tl == Index(ret.f).timeline
      k == CHOOSE k \in 1..Len(tl) : LookedAt(tl, AskedTime, k)
  IN getIndexSegmentEnd(tl[k], IF k < Len(tl) THEN << tl[k + 1] >> ELSE <<>>,
                        _scaledPeriodEnd[ret.f])

C18_FinishedWithinASixtiethOfASecond ==
  ret.op = "isFinished" =>
    LET idx == Index(ret.f)
    IN ret.val =
         IF ~_isDynamic[ret.f] THEN TRUE
         ELSE IF IsNullish(_scaledPeriodEnd[ret.f]) \/ idx.timeline = <<>> THEN FALSE
         ELSE 60 * LastEnd(idx.timeline) + idx.timescale
                >= 60 * _scaledPeriodEnd[ret.f].v

\* C19: once its eviction pass has run, getFirstPosition returns the seconds
\* that convert to the start of the first entry left, and getLastPosition
\* the seconds that convert to the end of the last run: start + duration *
\* (repeatCount + 1) for a concrete duration and, for a last entry of
\* duration -1, the scaled period end when the period's end is known.
C19_PositionsInSeconds ==
  LET idx == Index(ret.f)
      tl == idx.timeline
      last == tl[Len(tl)]
      \* seconds * timescale + indexTimeOffset = indexTime, for seconds = v / d
      ConvertsTo(seconds, indexTime) ==
        seconds.v * idx.timescale + idx.indexTimeOffset * seconds.d
          = indexTime * seconds.d
  IN /\ (ret.op = "getFirstPosition" /\ tl # <<>>)
          => ConvertsTo(ret.val, tl[1].start)
     /\ (ret.op = "getLastPosition" /\ tl # <<>> /\ last.duration # -1)
          => ConvertsTo(ret.val,
               last.start + last.duration * (last.repeatCount + 1))
     /\ (ret.op = "getLastPosition" /\ tl # <<>> /\ last.duration = -1
           /\ ~IsNullish(_scaledPeriodEnd[ret.f]))
          => ConvertsTo(ret.val, _scaledPeriodEnd[ret.f].v)

\* C19 witness: at bound 15 the eviction pass has dropped the entry {0,10,0}
\* of a two-entry timeline, and getFirstPosition has answered with the start
\* of the entry left, second 20.
C19_Witness ==
  /\ ret.op = "getFirstPosition"
  /\ getMinimumBound(ret.f) = Num(15)
  /\ Len(Index(ret.f).timeline) = 1
  /\ Index(ret.f).timeline[1].start = 20
  /\ ret.val = Div(20, 1)

\* C20: every call of canBeOutOfSyncError returns a boolean: false on a
\* static index, and on a dynamic one true exactly for a network error of
\* HTTP status 404; and the call leaves the facades, the timelines, the
\* bounds and the clock as they were.
C20_OutOfSyncOnlyOn404 ==
  [][ret'.op = "canBeOutOfSyncError" =>
       /\ ret'.val = (/\ _isDynamic[ret'.f]
                      /\ ret'.arg[1].type = "NetworkError"
                      /\ ret'.arg[1].status = 404)
       /\ UNCHANGED <<facadeVars, indexes, minimumBound, now>>]_vars

\* C20 witness: canBeOutOfSyncError has just returned true, on a dynamic
\* index whose timeline a known bound would shorten.
C20_Witness ==
  /\ ret.op = "canBeOutOfSyncError" /\ ret.val = TRUE
  /\ _isDynamic[ret.f]
  /\ RefreshedTimeline(ret.f) # Index(ret.f).timeline

\* the number of segments a timeline describes under facade f's period end
SegmentCount(f, tl) == Len(TimelineSegments(tl, 1, _scaledPeriodEnd[f]))

\* seconds x (a fraction) at or before seconds y
AtOrBefore(x, y) == x.v * y.d <= y.v * x.d

\* C21: with no _update (SpecQuery has none), over any queries and any bound
\* values, every step leaves the timeline with at most as many segments,
\* leaves the end of its last entry where it was while an entry remains,
\* never refills an emptied timeline, and never moves the first position
\* backwards; and what getFirstPosition returns is the first position of
\* the timeline it leaves, so its successive answers never decrease.
C21_EntriesOnlyLeave ==
  [][LET before == Index("a").timeline
         after == indexes'[_index'["a"]].timeline
         idx == indexes'[_index'["a"]]
     IN /\ SegmentCount("a", after) <= SegmentCount("a", before)
        /\ after # <<>> =>
             /\ before # <<>>
             /\ LastEnd(after) = LastEnd(before)
             /\ AtOrBefore(getFirstPositionValue(Index("a")),
                           getFirstPositionValue(idx))
        /\ ret'.op = "getFirstPosition" => ret'.val = getFirstPositionValue(idx)]_vars

\* C21 witness: a query has just evicted the first of two entries at bound
\* 15; the entry left ends at 30 and starts at second 20.
C21_Witness ==
  /\ ret.op \in RefreshingOps
  /\ getMinimumBound("a") = Num(15)
  /\ Index("a").timeline = << [start |-> 20, duration |-> 10, repeatCount |-> 0] >>
  /\ Index("a").timescale = 1

\* entry k of tl is the floor entry of scaled time s: the last one that
\* starts at or before s
IsFloorEntry(tl, s, k) ==
  /\ tl[k].start * s.d <= s.v
  /\ \A j \in (k + 1)..Len(tl) : tl[j].start * s.d > s.v

\* C24 as stated: getSegmentIndex returns 0 on an empty timeline and for a
\* target at or before every entry's start, and an index within
\* [0, length - 1] on a non-empty timeline; and checkDiscontinuity returns -1
\* for a time before the first entry's start and for a time whose floor
\* entry is the last entry or has duration -1.
C24_NeverNotFound ==
  /\ \A target \in SearchTargets :
       LET tl == Index("a").timeline
           found == getSegmentIndex(Index("a"), target)
       IN /\ tl = <<>> => found = 0
          /\ (\A k \in 1..Len(tl) : target.v <= tl[k].start * target.d) => found = 0
          /\ tl # <<>> => found \in 0..(Len(tl) - 1)
  /\ ret.op = "checkDiscontinuity" =>
       LET tl == Index(ret.f).timeline
           s == AskedTime
       IN /\ (tl # <<>> /\ s.v < tl[1].start * s.d) => ret.val = Num(-1)
          /\ \A k \in 1..Len(tl) :
               (IsFloorEntry(tl, s, k) /\ (k = Len(tl) \/ tl[k].duration = -1))
                 => ret.val = Num(-1)

\* C25 as stated: whenever checkDiscontinuity(t) returns something other
\* than -1, what it returns is strictly after t.
C25_DiscontinuityIsAhead ==
  (ret.op = "checkDiscontinuity" /\ ret.val # Num(-1))
    => ~AtOrBefore(ret.val, ret.arg[1])

\* what shouldRefresh(_, to) answers on the timeline as it is held
RefreshWanted(to) == shouldRefreshValue("a", Index("a"), to)

\* C26: on a dynamic index whose timeline is empty or ends with an entry of
\* positive duration, with no _update (SpecQuery has none), no step (a
\* query and its eviction, a new bound, the clock advancing) turns the
\* answer of shouldRefresh(_, to) on the timeline held from true to false;
\* and a call of shouldRefresh returns the answer on the timeline it leaves.
\* So once a call has returned true for `to`, every later call with the
\* same `to` returns true.
C26_RefreshStaysTrue ==
  [][LET tl == Index("a").timeline
     IN (_isDynamic["a"] /\ now' >= now
           /\ (tl = <<>> \/ tl[Len(tl)].duration > 0)) =>
          \A to \in QueryToValues :
            /\ RefreshWanted(to) => RefreshWanted(to)'
            /\ (ret'.op = "shouldRefresh" /\ ret'.arg[2] = to)
                 => ret'.val = RefreshWanted(to)']_vars

\* C26 witness: shouldRefresh(_, 7) has just returned true, a second after
\* the update, on a timeline of positive last duration whose first entry an
\* eviction at bound 2 has dropped.
C26_Witness ==
  /\ ret.op = "shouldRefresh" /\ ret.arg[2] = 7 /\ ret.val = TRUE
  /\ _isDynamic["a"] /\ ElapsedMs >= MsPerSecond
  /\ getMinimumBound("a") = Num(2)
  /\ Len(Index("a").timeline) = 2
  /\ Index("a").timeline[1].start = 120

====
